---- MODULE Spec2Model ----
(***************************************************************************)
(* A model of the COMPAS data layer: compas/data/data.py (class Data),    *)
(* compas/data/json.py (json_dump, json_dumps, json_load, json_loads) and *)
(* compas/geometry/primitives/polygon.py (class Polygon, the concrete     *)
(* Data type of the model).                                                *)
(*                                                                         *)
(* Conventions.                                                            *)
(*  - A Python list is a sequence.  A dict is [kind |-> "dict", items |->  *)
(*    the sequence of its <<key, value>> pairs in insertion order].        *)
(*  - An Optional field is a sequence of length at most one: <<>> is None, *)
(*    <<v>> is the value v.                                                *)
(*  - A JSON text is the tree it spells (objects with their keys in the    *)
(*    order they are written) together with the indent and the separators  *)
(*    it is written with.                                                  *)
(*  - uuid4() returns a token that no earlier call returned.               *)
(*  - hashlib.sha256 is collision free: a digest is modelled by the text   *)
(*    it was computed from.                                                *)
(*  - Two Points are equal when their coordinates are; a coordinate is a   *)
(*    number, whether it was given as an int or a float.                   *)
(*                                                                         *)
(* The operations are defined once and composed into five programs:        *)
(* SpecObj (one object: guid, name, points, dumps, sha256, copies),        *)
(* SpecPair (two objects and their digests), SpecSer (dumps kept and       *)
(* loaded), SpecFmt (dumps with every combination of the flags), SpecPoly  *)
(* (polygons built from lists and raw data, copied) and SpecConc (dumps    *)
(* and sha256 calls interleaved in two threads).                           *)
(***************************************************************************)
EXTENDS Integers, Sequences, FiniteSets, TLC

VARIABLES
    objs,        \* program variable (slot) -> the Polygon it is bound to
    encMinimal,  \* the class attribute DataEncoder.minimal
    nextGuid,    \* the number of tokens uuid4() has returned, plus one
    out,         \* the latest text written by json_dumps / json_dump
    hashOf,      \* slot -> the latest sha256 digest of its object, with the data hashed
    last,        \* the latest operation: its name, operands, result and exception
    thr          \* the calls running in threads

vars == <<objs, encMinimal, nextGuid, out, hashOf, last, thr>>

-----------------------------------------------------------------------------
(* Bounds and input domains *)

MaxLen == 3          \* longest list of points given to Polygon and from_data in SpecPoly
MaxGuids == 2        \* number of uuid4() calls in one behaviour

Slots == {"x", "y"}
PointPool == {<<0, 0, 0>>, <<1, 0, 0>>}
Names == {"", "n"}

RECURSIVE SeqsUpTo(_, _)
SeqsUpTo(S, n) ==
    IF n = 0 THEN {<<>>}
    ELSE LET shorter == SeqsUpTo(S, n - 1)
         IN  shorter \cup {Append(q, e) : q \in {r \in shorter : Len(r) = n - 1}, e \in S}

PolyInputs == SeqsUpTo(PointPool, MaxLen) \ {<<>>}

Threads == {"t1", "t2"}

\* the polygons the programs of the other specifications build
Shapes == {<< <<0, 0, 0>> >>, << <<0, 0, 0>>, <<1, 0, 0>> >>, << <<1, 0, 0>>, <<0, 0, 0>> >>}

-----------------------------------------------------------------------------
(* Values *)

None == <<>>
Some(v) == <<v>>
Dict(items) == [kind |-> "dict", items |-> items]
List(items) == [kind |-> "list", items |-> items]

HasKey(d, k) == \E i \in 1..Len(d.items) : d.items[i][1] = k
Get(d, k) == LET i == CHOOSE j \in 1..Len(d.items) : d.items[j][1] = k IN d.items[i][2]
Keys(d) == [i \in 1..Len(d.items) |-> d.items[i][1]]

\* the raw data given to from_data: the data of polygons, and three shapes that
\* are not a polygon's (no "points" key, a key too many, a list)
RawInputs ==
    {Dict(<< <<"points", pts>> >>) : pts \in SeqsUpTo(PointPool, MaxLen)}
    \cup {Dict(<<>>),
          Dict(<< <<"points", << <<0, 0, 0>>, <<1, 0, 0>> >> >>,
                  <<"extra", << <<0, 0, 0>> >> >> >>),
          List(<< <<0, 0, 0>>, <<1, 0, 0>> >>)}

\* Point(*xyz) and list(point)
PointOf(xyz) == [x |-> xyz[1], y |-> xyz[2], z |-> xyz[3]]
ListOf(p) == <<p.x, p.y, p.z>>

Unbound == [bound |-> FALSE, points |-> <<>>, lines |-> <<>>, guid |-> None, name |-> None]

-----------------------------------------------------------------------------
(* Polygon *)

\* Polygon.points setter: the stored points, the lines, and the caller's list
\* after the call (del points[-1] changes the caller's list in place).
PointsSetter(points) ==
    IF Len(points) = 0
    THEN [exc |-> "IndexError", points |-> <<>>, lines |-> <<>>, arg |-> points]
    ELSE LET q == IF points[Len(points)] = points[1]
                  THEN SubSeq(points, 1, Len(points) - 1)
                  ELSE points
             P == [i \in 1..Len(q) |-> PointOf(q[i])]
             n == Len(q)
         IN  [exc |-> "none",
              points |-> P,
              lines |-> [k \in 1..n |-> <<P[IF k = 1 THEN n ELSE k - 1], P[k]>>],
              arg |-> q]

\* Polygon.__init__ (Data.__init__ leaves _guid and _name None)
PolygonInit(points) ==
    LET r == PointsSetter(points)
    IN  [exc |-> r.exc,
         obj |-> [bound |-> TRUE, points |-> r.points, lines |-> r.lines,
                  guid |-> None, name |-> None],
         arg |-> r.arg]

\* Polygon.data getter
Data(o) == Dict(<< <<"points", [i \in 1..Len(o.points) |-> ListOf(o.points[i])]>> >>)

\* Data.dtype
Dtype(o) == "compas.geometry/Polygon"

\* Polygon.from_data: cls(data['points'])
PolygonFromData(data) ==
    IF data.kind # "dict"
    THEN [exc |-> "TypeError", obj |-> Unbound, arg |-> data]
    ELSE IF ~HasKey(data, "points")
    THEN [exc |-> "KeyError", obj |-> Unbound, arg |-> data]
    ELSE LET r == PolygonInit(Get(data, "points"))
         IN  [exc |-> r.exc, obj |-> r.obj,
              arg |-> Dict([i \in 1..Len(data.items) |->
                              IF data.items[i][1] = "points"
                              THEN <<"points", r.arg>>
                              ELSE data.items[i]])]

\* Polygon.copy: cls([point.copy() for point in self.points]); two Points are
\* equal when their coordinates are.
PolygonCopy(o) == PolygonInit([i \in 1..Len(o.points) |-> ListOf(o.points[i])])

-----------------------------------------------------------------------------
(* Data *)

\* a guid getter that draws a new token at every read
GuidGetterAlwaysNew(o, fresh) ==
    [obj |-> [o EXCEPT !.guid = Some(fresh)], val |-> fresh, gen |-> 1]

\* Data.guid getter with uuid4() returning `fresh`
GuidGetter(o, fresh) ==
    IF o.guid = None
    THEN [obj |-> [o EXCEPT !.guid = Some(fresh)], val |-> fresh, gen |-> 1]
    ELSE [obj |-> o, val |-> o.guid[1], gen |-> 0]

\* Data.name getter: `not self._name` holds of None and of ""
NameGetter(o) ==
    IF o.name = None \/ o.name = Some("")
    THEN [obj |-> [o EXCEPT !.name = Some("Polygon")], val |-> "Polygon"]
    ELSE [obj |-> o, val |-> o.name[1]]

\* Data.name setter
NameSetter(o, n) == [o EXCEPT !.name = Some(n)]

\* str(uuid) and UUID(text): the token written in, and read from, two hexadecimal digits
UuidStr(g) == <<g \div 16, g % 16>>
UuidParse(t) == t[1] * 16 + t[2]

\* a __jsondump__ that writes str(uuid4()) instead of str(self.guid)
JsondumpFreshGuid(o, minimal, fresh) ==
    LET state == << <<"dtype", Dtype(o)>>, <<"data", Data(o)>> >>
    IN  IF minimal
        THEN [state |-> [kind |-> "dict", items |-> state], obj |-> o, gen |-> 0]
        ELSE [state |-> [kind |-> "dict",
                         items |-> Append(state, <<"guid", UuidStr(fresh)>>)],
              obj |-> o, gen |-> 1]

\* Data.__jsondump__
Jsondump(o, minimal, fresh) ==
    LET state == << <<"dtype", Dtype(o)>>, <<"data", Data(o)>> >>
    IN  IF minimal
        THEN [state |-> Dict(state), obj |-> o, gen |-> 0]
        ELSE LET g == GuidGetter(o, fresh)
             IN  [state |-> Dict(Append(state, <<"guid", UuidStr(g.val)>>)),
                  obj |-> g.obj, gen |-> g.gen]

\* Data.__jsonload__
Jsonload(data, guid) ==
    LET r == PolygonFromData(data)
    IN  IF r.exc # "none" \/ guid = None THEN r
        ELSE [r EXCEPT !.obj.guid = Some(UuidParse(guid[1]))]

\* Data.copy: cls.from_data(deepcopy(self.data))
DataCopy(o) == PolygonFromData(Data(o))

-----------------------------------------------------------------------------
(* The encoder and the decoder *)

\* DataEncoder.default: o.__jsondump__(minimal=DataEncoder.minimal)
EncoderDefault(o, flag, fresh) == Jsondump(o, flag, fresh)

\* json.dumps sort_keys=True: the keys of every object in lexicographic order
KeyRank(k) ==
    CASE k = "data" -> 1 [] k = "dtype" -> 2 [] k = "extra" -> 3
      [] k = "guid" -> 4 [] k = "points" -> 5

RECURSIVE Insert(_, _)
Insert(sorted, item) ==
    IF sorted = <<>> THEN <<item>>
    ELSE IF KeyRank(item[1]) < KeyRank(Head(sorted)[1]) THEN <<item>> \o sorted
    ELSE <<Head(sorted)>> \o Insert(Tail(sorted), item)

RECURSIVE SortItems(_)
SortItems(items) ==
    IF items = <<>> THEN <<>>
    ELSE Insert(SortItems(SubSeq(items, 1, Len(items) - 1)), items[Len(items)])

\* the object json.dumps writes for the dict DataEncoder.default returned
WrittenObject(state, sort_keys) ==
    IF sort_keys
    THEN Dict(SortItems([i \in 1..Len(state.items) |->
                           IF state.items[i][1] = "data"
                           THEN <<"data", Dict(SortItems(state.items[i][2].items))>>
                           ELSE state.items[i]]))
    ELSE state

\* a json_dumps that leaves DataEncoder.minimal as the call before left it
KeepEncoderMinimal(current, minimal) == current

\* json_dumps / json_dump, first statement: DataEncoder.minimal = minimal
SetEncoderMinimal(current, minimal) == minimal

\* keyword arguments in which compact drops the sorting of the keys
KwargsCompactUnsorted(pretty, compact) ==
    [sort_keys |-> pretty /\ ~compact,
     indent |-> IF compact THEN None ELSE IF pretty THEN Some(4) ELSE None,
     separators |-> IF compact THEN <<",", ":">>
                    ELSE IF pretty THEN <<",", ": ">> ELSE <<", ", ": ">>]

\* the keyword arguments json_dumps and json_dump build
Kwargs(pretty, compact) ==
    [sort_keys |-> pretty,
     indent |-> IF compact THEN None ELSE IF pretty THEN Some(4) ELSE None,
     separators |-> IF compact THEN <<",", ":">>
                    ELSE IF pretty THEN <<",", ": ">> ELSE <<", ", ": ">>]

\* DataDecoder.object_hook on a tagged object: the class resolved from "dtype",
\* then cls.__jsonload__(data, guid)
DecoderObjectHook(node) ==
    IF ~HasKey(node, "dtype") THEN [exc |-> "none", obj |-> Unbound, arg |-> node]
    ELSE IF Get(node, "dtype") # "compas.geometry/Polygon"
    THEN [exc |-> "DecoderError", obj |-> Unbound, arg |-> node]
    ELSE Jsonload(Get(node, "data"),
                  IF HasKey(node, "guid") THEN Some(Get(node, "guid")) ELSE None)

\* json.dumps(value, cls=DataEncoder, **kwargs) on the objects bound to the slots
\* `vals`, in order: each object is handed to DataEncoder.default, which reads
\* `flag`; uuid4() tokens are taken from `ng` on.
RECURSIVE EncodeAll(_, _, _, _, _)
EncodeAll(vals, os, flag, ng, sort_keys) ==
    IF vals = <<>> THEN [objs |-> os, nodes |-> <<>>, ng |-> ng]
    ELSE LET d == EncoderDefault(os[Head(vals)], flag, ng)
             rest == EncodeAll(Tail(vals), [os EXCEPT ![Head(vals)] = d.obj],
                               flag, ng + d.gen, sort_keys)
         IN  [objs |-> rest.objs,
              nodes |-> <<WrittenObject(d.state, sort_keys)>> \o rest.nodes,
              ng |-> rest.ng]

\* the text json.dumps returns: the nodes written, as a list or alone, and the layout
Text(vals, nodes, kwargs) ==
    [isList |-> Len(vals) > 1, nodes |-> nodes,
     indent |-> kwargs.indent, separators |-> kwargs.separators]

\* hashlib.sha256 of the encoded text
Sha256Of(text) == [sha256 |-> text]

-----------------------------------------------------------------------------
(* Records of the calls made *)

NoText == Text(<<>>, <<>>, Kwargs(FALSE, FALSE))
NoDump == [sink |-> "none", vals |-> <<>>, pretty |-> FALSE, compact |-> FALSE,
           minimal |-> FALSE, text |-> NoText]
NoHash == [set |-> FALSE, again |-> FALSE, data |-> Dict(<<>>), digest |-> Sha256Of(NoText)]

Op(name, slot, exc) ==
    [op |-> name, slot |-> slot, exc |-> exc, argIn |-> None, argOut |-> None]

\* the number of uuid4() calls a non-minimal dump of `vals` makes
Missing(vals) == Cardinality({i \in 1..Len(vals) : objs[vals[i]].guid = None})

\* the values handed to json_dumps: one bound object, or the list [x, y]
DumpValues(S) ==
    {<<s>> : s \in {t \in S : objs[t].bound}}
    \cup {v \in {<<"x", "y">>} : \A i \in 1..Len(v) : v[i] \in S /\ objs[v[i]].bound}

-----------------------------------------------------------------------------
(* Operations.  A call runs from its first line to its return.  `keep` says   *)
(* whether the caller keeps the text a dump returns (in `out`), `log` whether *)
(* it keeps the digest sha256 returns (in `hashOf`).                          *)

\* s = Polygon(pts)
New(s, pts) ==
    LET r == PolygonInit(pts)
    IN  /\ objs' = IF r.exc = "none" THEN [objs EXCEPT ![s] = r.obj] ELSE objs
        /\ hashOf' = IF r.exc = "none" THEN [hashOf EXCEPT ![s] = NoHash] ELSE hashOf
        /\ last' = [Op("new", s, r.exc) EXCEPT !.argIn = Some(pts), !.argOut = Some(r.arg)]
        /\ UNCHANGED <<encMinimal, nextGuid, out, thr>>

\* s.points = pts
SetPoints(s, pts) ==
    /\ objs[s].bound
    /\ LET r == PointsSetter(pts)
       IN  /\ objs' = IF r.exc = "none"
                      THEN [objs EXCEPT ![s].points = r.points, ![s].lines = r.lines]
                      ELSE objs
           /\ last' = [Op("set_points", s, r.exc) EXCEPT
                          !.argIn = Some(pts), !.argOut = Some(r.arg)]
    /\ UNCHANGED <<encMinimal, nextGuid, out, hashOf, thr>>

\* s.guid
GuidRead(s) ==
    /\ objs[s].bound
    /\ objs[s].guid # None \/ nextGuid <= MaxGuids
    /\ LET g == GuidGetter(objs[s], nextGuid)
       IN  /\ objs' = [objs EXCEPT ![s] = g.obj]
           /\ nextGuid' = nextGuid + g.gen
           /\ last' = [Op("guid", s, "none") EXCEPT !.argOut = Some(g.val)]
    /\ UNCHANGED <<encMinimal, out, hashOf, thr>>

\* s.name
NameRead(s) ==
    /\ objs[s].bound
    /\ LET g == NameGetter(objs[s])
       IN  /\ objs' = [objs EXCEPT ![s] = g.obj]
           /\ last' = [Op("name", s, "none") EXCEPT !.argOut = Some(g.val)]
    /\ UNCHANGED <<encMinimal, nextGuid, out, hashOf, thr>>

\* s.name = n
NameSet(s, n) ==
    /\ objs[s].bound
    /\ objs' = [objs EXCEPT ![s] = NameSetter(objs[s], n)]
    /\ last' = [Op("set_name", s, "none") EXCEPT !.argIn = Some(n)]
    /\ UNCHANGED <<encMinimal, nextGuid, out, hashOf, thr>>

\* json_dumps(data, pretty, compact, minimal) and json_dump(data, fp, ...)
DumpTo(sink, vals, pretty, compact, minimal, keep) ==
    /\ minimal \/ nextGuid + Missing(vals) <= MaxGuids + 1
    /\ encMinimal' = SetEncoderMinimal(encMinimal, minimal)
    /\ LET kwargs == Kwargs(pretty, compact)
           e == EncodeAll(vals, objs, encMinimal', nextGuid, kwargs.sort_keys)
       IN  /\ objs' = e.objs
           /\ nextGuid' = e.ng
           /\ out' = IF keep
                     THEN [sink |-> sink, vals |-> vals, pretty |-> pretty,
                           compact |-> compact, minimal |-> minimal,
                           text |-> Text(vals, e.nodes, kwargs)]
                     ELSE out
    /\ last' = Op(IF sink = "str" THEN "json_dumps" ELSE "json_dump", vals[1], "none")
    /\ UNCHANGED <<hashOf, thr>>

JsonDumps(vals, pretty, compact, minimal, keep) ==
    DumpTo("str", vals, pretty, compact, minimal, keep)

JsonDump(vals, pretty, compact, minimal, keep) ==
    DumpTo("file", vals, pretty, compact, minimal, keep)

\* s.sha256(): the digest of compas.json_dumps(self)
Sha256(s, log) ==
    /\ objs[s].bound
    /\ nextGuid + Missing(<<s>>) <= MaxGuids + 1
    /\ encMinimal' = SetEncoderMinimal(encMinimal, FALSE)
    /\ LET kwargs == Kwargs(FALSE, FALSE)
           e == EncodeAll(<<s>>, objs, encMinimal', nextGuid, kwargs.sort_keys)
           h == Sha256Of(Text(<<s>>, e.nodes, kwargs))
       IN  /\ objs' = e.objs
           /\ nextGuid' = e.ng
           /\ hashOf' = IF log
                        THEN [hashOf EXCEPT ![s] =
                                [set |-> TRUE,
                                 again |-> hashOf[s].set /\ hashOf[s].data = Data(objs[s]),
                                 data |-> Data(objs[s]), digest |-> h]]
                        ELSE hashOf
    /\ last' = Op("sha256", s, "none")
    /\ UNCHANGED <<out, thr>>

\* dst = json_loads(text) / json_load(fp), or element i of the list it returns
LoadFrom(sink, dst, i) ==
    /\ out.sink = sink
    /\ i \in 1..Len(out.text.nodes)
    /\ LET n == Len(out.text.nodes)
           r == [k \in 1..n |-> DecoderObjectHook(out.text.nodes[k])]
           bad == {k \in 1..n : r[k].exc # "none"}
           exc == IF bad = {} THEN "none"
                  ELSE r[CHOOSE k \in bad : \A j \in bad : k <= j].exc
       IN  /\ objs' = IF exc = "none" THEN [objs EXCEPT ![dst] = r[i].obj] ELSE objs
           /\ hashOf' = IF exc = "none" THEN [hashOf EXCEPT ![dst] = NoHash] ELSE hashOf
           /\ last' = [Op(IF sink = "str" THEN "json_loads" ELSE "json_load", dst, exc)
                          EXCEPT !.argIn = Some(i)]
    /\ UNCHANGED <<encMinimal, nextGuid, out, thr>>

JsonLoads(dst, i) == LoadFrom("str", dst, i)
JsonLoad(dst, i) == LoadFrom("file", dst, i)

\* dst = src.copy() with Polygon.copy, and dst = Data.copy(src)
CopyWith(name, r, src, dst) ==
    /\ objs' = IF r.exc = "none" THEN [objs EXCEPT ![dst] = r.obj] ELSE objs
    /\ hashOf' = IF r.exc = "none" THEN [hashOf EXCEPT ![dst] = NoHash] ELSE hashOf
    /\ last' = [Op(name, dst, r.exc) EXCEPT !.argIn = Some(src)]
    /\ UNCHANGED <<encMinimal, nextGuid, out, thr>>

\* dst = Polygon.from_data(raw)
FromData(dst, raw) ==
    LET r == PolygonFromData(raw)
    IN  /\ objs' = IF r.exc = "none" THEN [objs EXCEPT ![dst] = r.obj] ELSE objs
        /\ hashOf' = IF r.exc = "none" THEN [hashOf EXCEPT ![dst] = NoHash] ELSE hashOf
        /\ last' = [Op("from_data", dst, r.exc) EXCEPT
                       !.argIn = Some(raw), !.argOut = Some(r.arg)]
        /\ UNCHANGED <<encMinimal, nextGuid, out, thr>>

Copy(src, dst) == objs[src].bound /\ CopyWith("copy", PolygonCopy(objs[src]), src, dst)
CopyData(src, dst) == objs[src].bound /\ CopyWith("data_copy", DataCopy(objs[src]), src, dst)

\* a thread that runs no call
Idle == [pc |-> "idle", kind |-> "none", minimal |-> FALSE, todo |-> <<>>, nodes |-> <<>>]

Init ==
    /\ objs = [s \in Slots |-> Unbound]
    /\ encMinimal \in BOOLEAN
    /\ nextGuid = 1
    /\ out = NoDump
    /\ hashOf = [s \in Slots |-> NoHash]
    /\ last = Op("init", "x", "none")
    /\ thr = [t \in Threads |-> Idle]

-----------------------------------------------------------------------------------------------------------------------------------------------------
(* SpecObj: a program working on one object, x.  It reads and assigns the   *)
(* name, reads the guid, changes the points, dumps x (dropping the text),   *)
(* hashes it (keeping the digest) and copies it to y.                       *)

NextObj ==
    \/ \E pts \in Shapes : New("x", pts)
    \/ \E pts \in Shapes : SetPoints("x", pts)
    \/ GuidRead("x")
    \/ NameRead("x")
    \/ \E n \in Names : NameSet("x", n)
    \/ \E pretty, compact, minimal \in BOOLEAN :
          JsonDumps(<<"x">>, pretty, compact, minimal, FALSE)
    \/ \E pretty, compact, minimal \in BOOLEAN :
          JsonDump(<<"x">>, pretty, compact, minimal, FALSE)
    \/ Sha256("x", TRUE)
    \/ Copy("x", "y")
    \/ CopyData("x", "y")

SpecObj == Init /\ [][NextObj]_vars

-----------------------------------------------------------------------------
(* SpecPair: a program working on two objects, x and y, whose digests it keeps *)

NextPair ==
    \/ \E s \in Slots, pts \in Shapes : New(s, pts)
    \/ \E s \in Slots, pts \in Shapes : SetPoints(s, pts)
    \/ \E s \in Slots : GuidRead(s)
    \/ \E s \in Slots : Sha256(s, TRUE)
    \/ \E src, dst \in Slots : Copy(src, dst)

SpecPair == Init /\ [][NextPair]_vars

-----------------------------------------------------------------------------------------------------------------------------------------------------
(* SpecSer: a program that dumps x, y or [x, y] to a text or a file, keeps   *)
(* the text, loads objects from it, reads guids and hashes                   *)

NextSer ==
    \/ \E s \in Slots, pts \in Shapes : New(s, pts)
    \/ \E s \in Slots : GuidRead(s)
    \/ \E vals \in DumpValues(Slots), minimal \in BOOLEAN :
          JsonDumps(vals, FALSE, FALSE, minimal, TRUE)
    \/ \E vals \in DumpValues(Slots), minimal \in BOOLEAN :
          JsonDump(vals, FALSE, FALSE, minimal, TRUE)
    \/ \E s \in Slots : Sha256(s, FALSE)
    \/ \E dst \in Slots, i \in 1..2 : JsonLoads(dst, i)
    \/ \E dst \in Slots, i \in 1..2 : JsonLoad(dst, i)

SpecSer == Init /\ [][NextSer]_vars

-----------------------------------------------------------------------------
(* SpecFmt: a program that dumps x with every combination of the flags and   *)
(* keeps the text                                                            *)

NextFmt ==
    \/ \E pts \in Shapes : New("x", pts)
    \/ GuidRead("x")
    \/ \E pretty, compact, minimal \in BOOLEAN :
          JsonDumps(<<"x">>, pretty, compact, minimal, TRUE)
    \/ \E pretty, compact, minimal \in BOOLEAN :
          JsonDump(<<"x">>, pretty, compact, minimal, TRUE)
    \/ Sha256("x", FALSE)

SpecFmt == Init /\ [][NextFmt]_vars

-----------------------------------------------------------------------------
(* SpecPoly: a program that builds polygons from lists of points and from    *)
(* raw data, assigns their points and copies them                            *)

NextPoly ==
    \/ \E s \in Slots, pts \in PolyInputs : New(s, pts)
    \/ \E s \in Slots, pts \in PolyInputs : SetPoints(s, pts)
    \/ \E dst \in Slots, raw \in RawInputs : FromData(dst, raw)
    \/ \E src, dst \in Slots : Copy(src, dst)
    \/ \E src, dst \in Slots : CopyData(src, dst)

SpecPoly == Init /\ [][NextPoly]_vars

-----------------------------------------------------------------------------
(* SpecConc: two threads call json_dumps and sha256 on the objects the main  *)
(* program built.  A thread may be preempted between the statements of       *)
(* json_dumps and between the calls json.dumps makes to DataEncoder.default. *)

\* thread t enters json_dumps(vals, minimal=minimal), or sha256 on vals[1]
Call(t, kind, vals, minimal) ==
    /\ thr[t].pc = "idle"
    /\ kind = "sha256" => (Len(vals) = 1 /\ ~minimal)
    /\ thr' = [thr EXCEPT ![t] = [pc |-> "set", kind |-> kind, minimal |-> minimal,
                                  todo |-> vals, nodes |-> <<>>]]
    /\ UNCHANGED <<objs, encMinimal, nextGuid, out, hashOf, last>>

\* json_dumps, first statement: DataEncoder.minimal = minimal
SetFlag(t) ==
    /\ thr[t].pc = "set"
    /\ encMinimal' = SetEncoderMinimal(encMinimal, thr[t].minimal)
    /\ thr' = [thr EXCEPT ![t].pc = "encode"]
    /\ UNCHANGED <<objs, nextGuid, out, hashOf, last>>

\* json.dumps reaches the next object and calls DataEncoder.default on it
EncodeNode(t) ==
    /\ thr[t].pc = "encode"
    /\ thr[t].todo # <<>>
    /\ encMinimal \/ nextGuid + Missing(<<Head(thr[t].todo)>>) <= MaxGuids + 1
    /\ LET s == Head(thr[t].todo)
           d == EncoderDefault(objs[s], encMinimal, nextGuid)
       IN  /\ objs' = [objs EXCEPT ![s] = d.obj]
           /\ nextGuid' = nextGuid + d.gen
           /\ thr' = [thr EXCEPT ![t].todo = Tail(thr[t].todo),
                                 ![t].nodes = Append(thr[t].nodes,
                                                     WrittenObject(d.state, FALSE))]
    /\ UNCHANGED <<encMinimal, out, hashOf, last>>

\* json.dumps returns the text
Return(t) ==
    /\ thr[t].pc = "encode"
    /\ thr[t].todo = <<>>
    /\ thr' = [thr EXCEPT ![t].pc = "done"]
    /\ UNCHANGED <<objs, encMinimal, nextGuid, out, hashOf, last>>

NextConc ==
    \/ \E s \in Slots, pts \in Shapes :
          (\A t \in Threads : thr[t].pc = "idle") /\ New(s, pts)
    \/ \E t \in Threads, kind \in {"json_dumps", "sha256"}, minimal \in BOOLEAN :
          \E vals \in DumpValues(Slots) : Call(t, kind, vals, minimal)
    \/ \E t \in Threads : SetFlag(t)
    \/ \E t \in Threads : EncodeNode(t)
    \/ \E t \in Threads : Return(t)

SpecConc == Init /\ [][NextConc]_vars


-----------------------------------------------------------------------------
(* Claims *)

\* the guid written in a text's object
GuidIn(node) == UuidParse(Get(node, "guid"))

\* raw data of a polygon's shape: a mapping with the key "points" and no other
ValidShape(raw) ==
    /\ raw.kind = "dict"
    /\ Len(raw.items) = 1
    /\ raw.items[1][1] = "points"

\* C1 (as claimed): two objects of one type have equal sha256 digests exactly when
\* their data are equal, whatever their guids; two separately built objects with
\* equal data hash equal.
C1_HashIffDataEqual ==
    (hashOf["x"].set /\ hashOf["y"].set) =>
        ((hashOf["x"].digest = hashOf["y"].digest) <=> (hashOf["x"].data = hashOf["y"].data))

\* C2: in the text of one json_dumps / json_dump call run without interleaving,
\* every tagged object holds a "guid" key when the call was made with minimal=false
\* and none holds one when it was made with minimal=true, whatever flag the dump and
\* sha256 calls before it used.
C2_GuidIffNotMinimal ==
    out.sink # "none" =>
        /\ Len(out.text.nodes) = Len(out.vals)
        /\ \A i \in 1..Len(out.text.nodes) :
              HasKey(out.text.nodes[i], "guid") <=> ~out.minimal

\* C2 happens: a minimal dump of [x, y] to a file, made when both objects already
\* hold a guid that an earlier non-minimal call or read created.
C2_Witness ==
    /\ last.op = "json_dump"
    /\ out.sink = "file" /\ out.minimal /\ Len(out.text.nodes) = 2
    /\ \A s \in Slots : objs[s].guid # None

\* C3 (as claimed): a load that follows a dump yields an object; after a dump with
\* minimal=false its guid is the guid of the object dumped, after a dump with
\* minimal=true it has no guid yet and the one its first read draws is not the
\* guid of the object dumped.
C3_GuidRoundTrip ==
    [][\A dst \in Slots, i \in 1..2 :
          ( /\ last.op \in {"json_dumps", "json_dump"}
            /\ last'.op \in {"json_loads", "json_load"}
            /\ last'.slot = dst
            /\ last'.argIn = Some(i) )
          => /\ last'.exc = "none"
             /\ ~out.minimal => objs'[dst].guid = objs[out.vals[i]].guid
             /\ out.minimal =>
                   /\ objs'[dst].guid = None
                   /\ objs[out.vals[i]].guid # Some(GuidGetter(objs'[dst], nextGuid').val)
      ]_vars

\* C4 (as claimed): from_data given the data of a polygon that was built returns a
\* polygon with that data.
C4_FromDataRoundTrip ==
    \A src \in Slots :
        ( /\ last.op = "from_data"
          /\ last.slot # src
          /\ objs[src].bound
          /\ last.argIn = Some(Data(objs[src])) )
        => /\ last.exc = "none"
           /\ Data(objs[last.slot]) = Data(objs[src])

\* C5 (as claimed): whatever the interleaving, the text a json_dumps or sha256 call
\* of a thread encodes holds a "guid" key in every object when the call was made with
\* minimal=false, and in none when it was made with minimal=true.
C5_ThreadsNeedNoCoordination ==
    \A t \in Threads :
        thr[t].pc = "done" =>
            \A i \in 1..Len(thr[t].nodes) :
                HasKey(thr[t].nodes[i], "guid") <=> ~thr[t].minimal

\* C6: the guid of x is absent when x is built, is set by a read of guid, by sha256
\* and by a dump with minimal=false, and once set is the same after every
\* operation on x (reads and assignments of the name and the points, guid reads,
\* dumps, sha256, copies).
C6_GuidSetOnceOnFirstRead ==
    [][/\ (last'.op = "new" /\ last'.exc = "none") => objs'["x"].guid = None
       /\ (/\ objs["x"].bound /\ objs["x"].guid # None
           /\ ~(last'.op = "new" /\ last'.exc = "none"))
          => objs'["x"].guid = objs["x"].guid
       /\ last'.op \in {"guid", "sha256"} => objs'["x"].guid # None
       /\ (last'.op \in {"json_dumps", "json_dump"} /\ ~encMinimal')
          => objs'["x"].guid # None
       /\ last'.op = "guid" => last'.argOut = objs'["x"].guid
      ]_vars

\* C6 happens: a read of guid that follows a sha256 call and a name assignment
\* returns the token the digest was computed with.
C6_Witness ==
    /\ last.op = "guid"
    /\ objs["x"].name = Some("n")
    /\ hashOf["x"].set
    /\ hashOf["x"].data = Data(objs["x"])
    /\ last.argOut = Some(GuidIn(hashOf["x"].digest.sha256.nodes[1]))

\* C7: a sha256 call on x returns the digest the sha256 call before it returned when
\* the data of x is what it was then, whatever reads of guid and name, name
\* assignments and dumps (with either minimal flag) ran in between.
C7_HashStable ==
    [][(/\ last'.op = "sha256"
        /\ hashOf["x"].set
        /\ hashOf["x"].data = Data(objs["x"]))
       => hashOf'["x"].digest = hashOf["x"].digest
      ]_vars

\* C7 happens: a sha256 call on a two-point polygon whose name was assigned, made
\* when the digest of an earlier sha256 call on the same data was kept.
C7_Witness ==
    /\ last.op = "sha256"
    /\ hashOf["x"].again
    /\ objs["x"].name = Some("n")
    /\ Len(objs["x"].points) = 2

\* C8 (as claimed): from_data given raw data that is not of the polygon's shape
\* fails with SchemaMismatch.
C8_SchemaMismatch ==
    (last.op = "from_data" /\ ~ValidShape(last.argIn[1])) => last.exc = "SchemaMismatch"

\* C9 (as claimed): the keys of a tagged object are written in the order dtype,
\* data, guid, whatever pretty and compact are.
C9_KeyOrderFixed ==
    out.sink # "none" =>
        \A i \in 1..Len(out.text.nodes) :
            Keys(out.text.nodes[i]) =
                IF out.minimal THEN <<"dtype", "data">> ELSE <<"dtype", "data", "guid">>

\* C9 (amended): the keys of a tagged object are written in the order dtype, data,
\* guid when pretty is false, and in the sorted order data, dtype, guid when pretty is
\* true, whatever compact is.
C9_KeyOrderSortedWhenPretty ==
    out.sink # "none" =>
        \A i \in 1..Len(out.text.nodes) :
            Keys(out.text.nodes[i]) =
                IF out.pretty
                THEN (IF out.minimal THEN <<"data", "dtype">> ELSE <<"data", "dtype", "guid">>)
                ELSE (IF out.minimal THEN <<"dtype", "data">> ELSE <<"dtype", "data", "guid">>)

\* C9 happens: a text written with pretty, compact and a guid.
C9_Witness ==
    /\ out.sink = "str"
    /\ out.pretty /\ out.compact /\ ~out.minimal
    /\ Len(out.text.nodes) = 1

\* C10 (as claimed): a copy has the data of the object it was copied from.
C10_CopyHasEqualData ==
    \A src \in Slots :
        ( /\ last.op \in {"copy", "data_copy"}
          /\ last.argIn = Some(src)
          /\ last.slot # src )
        => /\ last.exc = "none"
           /\ Data(objs[last.slot]) = Data(objs[src])

\* C11 (as claimed): from_data leaves the raw data it was given as it was: the
\* caller's value after the call is structurally the value before it, also when the
\* first and the last point of its "points" list are equal.
C11_FromDataLeavesRawUnchanged ==
    last.op = "from_data" => last.argOut = last.argIn

\* C12 (as claimed): the first read of the name of a newly built object returns the
\* class name, and a read that follows an assignment name = n returns n, for every
\* string n, the empty string included.
C12_NameReadsAsAssigned ==
    [][/\ (last.op = "new" /\ last.exc = "none" /\ last'.op = "name")
          => last'.argOut = Some("Polygon")
       /\ (last.op = "set_name" /\ last'.op = "name")
          => last'.argOut = last.argIn
      ]_vars

\* C13 (as claimed): after Polygon(pts) or p.points = pts with a non-empty list pts,
\* the stored list of points is non-empty, its first and last elements are not the
\* same point, and there is one line per stored point: the closing edge from the last
\* point to the first, and a line from every point to the next.
C13_StoredClosedByImplication ==
    ( /\ last.op \in {"new", "set_points"}
      /\ last.exc = "none"
      /\ Len(last.argIn[1]) > 0 )
    => LET o == objs[last.slot]
           n == Len(o.points)
       IN  /\ n > 0
           /\ o.points[1] # o.points[n]
           /\ Len(o.lines) = n
           /\ \A k \in 1..n :
                 o.lines[k] = <<o.points[IF k = 1 THEN n ELSE k - 1], o.points[k]>>

====
